---- MODULE Spec2Model ----
\* Verification model of the OCR financial-report repository:
\*   - FinancialReportParser (utils/parsers.py): parse and its private helpers,
\*   - process_input (main.py): load, parallel per-page OCR, gather, save.
\* Python sequences are 0-based; the sequences here are 1-based, so page i of
\* the source is element i+1 of a sequence of the model.
EXTENDS Integers, Sequences, FiniteSets, TLC

VARIABLES
    \* --- direct calls of FinancialReportParser._calculate_metrics
    m_start,      \* the start_period argument
    m_end,        \* the end_period argument
    m_out,        \* outcome of the call
    \* --- FinancialReportParser.parse invocations
    parser,       \* the attributes of the parser object (self.__dict__)
    calls,        \* call slot -> frame of a parse invocation (pc and locals)
    returned,     \* sequence of the records parse has returned, in return order
    issued,       \* the identifiers uuid4 has generated so far
    \* --- one run of process_input (main.py)
    file_path,    \* the input document: does it exist, its extension, its pages
    max_workers,  \* the max_workers argument
    cpu_count,    \* os.cpu_count(), 0 standing for None
    phase,        \* where process_input is
    load_error,   \* the exception _load_images raised, None when it returned
    images,       \* the loaded page images
    n_workers,    \* the worker count handed to the pool
    futures,      \* page -> state of the future submitted for it
    handled,      \* the futures the as_completed loop has dealt with
    texts,        \* the result list
    out_file,     \* the output file: number of writes and content
    ret,          \* what process_input returned or raised
    \* --- one worker process (utils/worker.py)
    engine_instance,  \* _engine_instance: 0 for None, else the engine's identity
    engine_config,    \* _engine_config: None, or the ocr_lang of the Config
    engines,          \* the engines constructed so far, by identity
    worker_log        \* the process_single_page calls made so far, in order

metricsVars == <<m_start, m_end, m_out>>

parserVars == <<parser, calls, returned, issued>>

ocrVars == <<file_path, max_workers, cpu_count, phase, load_error, images, n_workers,
             futures, handled, texts, out_file, ret>>

workerVars == <<engine_instance, engine_config, engines, worker_log>>

vars == <<metricsVars, parserVars, ocrVars, workerVars>>

\* ------------------------------------------------------------------ bounds
MaxValue == 2
MaxCalls == 2
MaxUuid == 3
MaxPages == 3
MaxWorkerCalls == 4

\* ------------------------------------------------------------------ values
\* Python's None for an Optional[str].
None == "None"

\* An empty dict.
EmptyDict == [k \in {} |-> 0]

\* Normalized line-item keys named by the source.
Keys == {"tong_tai_san", "no_phai_tra"}

\* FinancialPeriodData(date, data)
FinancialPeriodData(date, data) == [date |-> date, data |-> data]

\* A call either returns a value or raises: exc is None when it returned.
Returned(v) == [exc |-> None, value |-> v]

Raised(e, v) == [exc |-> e, value |-> v]

\* An exact ratio n/d (d # 0) as a reduced fraction with positive denominator.
RECURSIVE Gcd(_, _)
Gcd(a, b) == IF b = 0 THEN a ELSE Gcd(b, a % b)

Abs(n) == IF n < 0 THEN -n ELSE n

Frac(n, d) ==
    LET g == Gcd(Abs(n), Abs(d))
        s == IF d < 0 THEN -1 ELSE 1
    IN  [num |-> s * (n \div g), den |-> s * (d \div g)]

\* ------------------------------------------------------------------ parser helpers
\* _calculate_metrics as written when the commented skeleton is enabled without
\* its zero guard.
_calculate_metrics_unguarded(start_period, end_period) ==
    LET k == "tong_tai_san"
    IN  IF k \in DOMAIN start_period.data /\ k \in DOMAIN end_period.data
        THEN IF start_period.data[k] = 0
             THEN Raised("ZeroDivisionError", EmptyDict)
             ELSE Returned([m \in {"growth_rate"} |->
                     Frac(end_period.data[k] - start_period.data[k],
                          start_period.data[k])])
        ELSE Returned(EmptyDict)

\* FinancialReportParser._calculate_metrics: metrics = {}; return metrics.
_calculate_metrics(start_period, end_period) ==
    Returned(EmptyDict)

\* ------------------------------------------------------------------ direct calls
\* Snapshots handed to _calculate_metrics by a caller: any date, any subset of
\* the keys, signed values.
Values == (-MaxValue)..MaxValue

DataMaps == UNION {[D -> Values] : D \in SUBSET Keys}

Snapshots == {FinancialPeriodData(d, f) : d \in {None, "01/01/2023"}, f \in DataMaps}

NotCalled == [called |-> FALSE, exc |-> None, value |-> EmptyDict]

MetricsArguments ==
    /\ m_start \in Snapshots
    /\ m_end \in Snapshots
    /\ m_out = NotCalled

\* ------------------------------------------------------------------ texts
\* A raw OCR text is a sequence of lines ("" is the empty sequence).
EmptyText == << >>

NoiseText == <<"CONG TY ABC", "Bao cao tai chinh">>

\* The end-to-end scenario: a beginning-of-year column dated 01/01/2023 with
\* total assets and liabilities, an end-of-year column dated 31/12/2023.
E2EText ==
    << "So dau nam 01/01/2023", "Tong tai san: 1.000.000.000",
       "No phai tra: 500.000.000",
       "So cuoi nam 31/12/2023", "Tong tai san: 1.200.000.000" >>

Texts == {EmptyText, NoiseText, E2EText}

\* The period column labels named in the helpers' docstrings.
PeriodLabels == {"So dau nam 01/01/2023", "So cuoi nam 31/12/2023"}

HasPeriodSection(text) == \E i \in 1..Len(text) : text[i] \in PeriodLabels

\* ------------------------------------------------------------------ parse
Uuids == 1..MaxUuid

UnsetPeriod == FinancialPeriodData("unset", EmptyDict)

IdleFrame ==
    [pc |-> "idle", text |-> EmptyText, report_id |-> 0,
     start_period |-> UnsetPeriod, end_period |-> UnsetPeriod,
     metrics |-> EmptyDict]

\* A generator that may repeat a value it has produced before.
uuid4_repeating(generated) == Uuids

\* uuid4(): the values a call can produce, given the ones generated so far.
\* A version-4 UUID is universally unique by contract: a fresh value.
uuid4(generated) == Uuids \ generated

\* An extractor that indexes the first line of the text without a guard.
_extract_start_of_period_firstline(text) ==
    IF Len(text) = 0
    THEN Raised("IndexError", UnsetPeriod)
    ELSE Returned(FinancialPeriodData(text[1], EmptyDict))

\* FinancialReportParser._extract_start_of_period
_extract_start_of_period(text) ==
    Returned(FinancialPeriodData(None, EmptyDict))

\* FinancialReportParser._extract_end_of_period
_extract_end_of_period(text) ==
    Returned(FinancialPeriodData(None, EmptyDict))

\* The record flattened the way the FinancialReport dataclass is laid out.
ReportDict_dataclass(report_id, start_period, end_period, metrics) ==
    [report_id |-> report_id,
     start_of_period |-> [date |-> start_period.date, data |-> start_period.data],
     end_of_period |-> [date |-> end_period.date, data |-> end_period.data],
     calculated_metrics |-> metrics]

\* The dict literal parse returns.
ReportDict(report_id, start_period, end_period, metrics) ==
    [report_id |-> report_id,
     financial_period |->
        [start_of_period |->
            [date |-> start_period.date, data |-> start_period.data],
         end_of_period |->
            [date |-> end_period.date, data |-> end_period.data]],
     calculated_metrics |-> metrics]

IdleParser ==
    /\ parser = EmptyDict
    /\ calls = [k \in 1..MaxCalls |-> IdleFrame]
    /\ returned = << >>
    /\ issued = {}

MetricsUnused ==
    /\ m_start = FinancialPeriodData(None, EmptyDict)
    /\ m_end = FinancialPeriodData(None, EmptyDict)
    /\ m_out = NotCalled

\* The invocations in progress. The number of invocations is capped so that
\* the identifier pool of the model is never exhausted.
Active == {k \in 1..MaxCalls : calls[k].pc # "idle"}

\* A caller invokes parser.parse(text).
ParseCall(k, text) ==
    /\ calls[k].pc = "idle"
    /\ Len(returned) + Cardinality(Active) < MaxUuid
    /\ calls' = [calls EXCEPT ![k] = [IdleFrame EXCEPT !.pc = "l71", !.text = text]]
    /\ UNCHANGED <<parser, returned, issued, metricsVars, ocrVars, workerVars>>

\* report_id derived from the document content instead of generated.
ParseUuid_fromText(k) ==
    /\ calls[k].pc = "l71"
    /\ LET id == (Len(calls[k].text) % MaxUuid) + 1
       IN  /\ calls' = [calls EXCEPT ![k].pc = "l73", ![k].report_id = id]
           /\ issued' = issued \cup {id}
    /\ UNCHANGED <<parser, returned, metricsVars, ocrVars, workerVars>>

\* report_id = str(uuid4())
ParseUuid(k) ==
    /\ calls[k].pc = "l71"
    /\ \E id \in uuid4(issued) :
          /\ calls' = [calls EXCEPT ![k].pc = "l73", ![k].report_id = id]
          /\ issued' = issued \cup {id}
    /\ UNCHANGED <<parser, returned, metricsVars, ocrVars, workerVars>>

\* An extractor step that keeps the last text it saw on the parser object.
ParseExtractStart_caching(k) ==
    /\ calls[k].pc = "l73"
    /\ LET r == _extract_start_of_period(calls[k].text)
       IN  calls' = [calls EXCEPT ![k].pc = "l74", ![k].start_period = r.value]
    /\ parser' = [a \in {"last_text"} |-> calls[k].text]
    /\ UNCHANGED <<returned, issued, metricsVars, ocrVars, workerVars>>

\* start_period = self._extract_start_of_period(text)
ParseExtractStart(k) ==
    /\ calls[k].pc = "l73"
    /\ LET r == _extract_start_of_period(calls[k].text)
       IN  calls' = [calls EXCEPT
                ![k].pc = IF r.exc = None THEN "l74" ELSE "raised",
                ![k].start_period = r.value]
    /\ UNCHANGED <<parser, returned, issued, metricsVars, ocrVars, workerVars>>

\* end_period = self._extract_end_of_period(text)
ParseExtractEnd(k) ==
    /\ calls[k].pc = "l74"
    /\ LET r == _extract_end_of_period(calls[k].text)
       IN  calls' = [calls EXCEPT
                ![k].pc = IF r.exc = None THEN "l75" ELSE "raised",
                ![k].end_period = r.value]
    /\ UNCHANGED <<parser, returned, issued, metricsVars, ocrVars, workerVars>>

\* metrics = self._calculate_metrics(start_period, end_period)
ParseMetrics(k) ==
    /\ calls[k].pc = "l75"
    /\ LET r == _calculate_metrics(calls[k].start_period, calls[k].end_period)
       IN  calls' = [calls EXCEPT
                ![k].pc = IF r.exc = None THEN "l77" ELSE "raised",
                ![k].metrics = r.value]
    /\ UNCHANGED <<parser, returned, issued, metricsVars, ocrVars, workerVars>>

\* return {...}: the record goes to the caller and the frame is gone.
ParseReturn(k) ==
    /\ calls[k].pc = "l77"
    /\ returned' = Append(returned,
          [text |-> calls[k].text,
           record |-> ReportDict(calls[k].report_id, calls[k].start_period,
                                 calls[k].end_period, calls[k].metrics)])
    /\ calls' = [calls EXCEPT ![k] = IdleFrame]
    /\ UNCHANGED <<parser, issued, metricsVars, ocrVars, workerVars>>

NextParser ==
    \E k \in 1..MaxCalls :
        \/ \E text \in Texts : ParseCall(k, text)
        \/ ParseUuid(k)
        \/ ParseExtractStart(k)
        \/ ParseExtractEnd(k)
        \/ ParseMetrics(k)
        \/ ParseReturn(k)

CallCalculateMetrics ==
    /\ ~m_out.called
    /\ LET r == _calculate_metrics(m_start, m_end)
       IN  m_out' = [called |-> TRUE, exc |-> r.exc, value |-> r.value]
    /\ UNCHANGED <<m_start, m_end, parserVars, ocrVars, workerVars>>

NextMetrics == CallCalculateMetrics

\* ------------------------------------------------------------------ worker
\* The ocr_lang values a caller passes.
Langs == {"vie+eng", "en"}

\* PaddleOCREngine.__init__: lang = "en" only when ocr_lang has "en" and no "vi".
PaddleLang(ocr_lang) == IF ocr_lang = "en" THEN "en" ELSE "vi"

\* PaddleOCREngine(config=config): the engine object, which keeps its config.
PaddleOCREngine(ocr_lang) == [ocr_lang |-> ocr_lang, lang |-> PaddleLang(ocr_lang)]

\* A worker that builds an engine on every call.
NeedsEngine_always(instance, config, ocr_lang) == TRUE

\* _engine_instance is None or (_engine_config and _engine_config.ocr_lang != ocr_lang)
NeedsEngine(instance, config, ocr_lang) ==
    instance = 0 \/ (config # None /\ config # ocr_lang)

WorkerStart ==
    /\ engine_instance = 0
    /\ engine_config = None
    /\ engines = << >>
    /\ worker_log = << >>

\* process_single_page(image_array, ocr_lang) in one worker process:
\* _get_global_engine (the constructor may raise after _engine_config is
\* set), then the OCR of the page, which returns a text or raises; every
\* exception leaves as OCREngineError.
process_single_page(ocr_lang, init_ok, ocr_ok) ==
    /\ Len(worker_log) < MaxWorkerCalls
    /\ IF NeedsEngine(engine_instance, engine_config, ocr_lang)
       THEN /\ engine_config' = ocr_lang
            /\ IF init_ok
               THEN /\ engines' = Append(engines, PaddleOCREngine(ocr_lang))
                    /\ engine_instance' = Len(engines) + 1
               ELSE UNCHANGED <<engines, engine_instance>>
       ELSE UNCHANGED <<engine_config, engines, engine_instance>>
    /\ LET built == NeedsEngine(engine_instance, engine_config, ocr_lang)
           failed == built /\ ~init_ok
       IN  worker_log' = Append(worker_log,
              [ocr_lang |-> ocr_lang,
               built |-> built /\ init_ok,
               engine |-> IF failed THEN 0 ELSE engine_instance',
               exc |-> IF failed \/ ~ocr_ok THEN "OCREngineError" ELSE None])
    /\ UNCHANGED <<metricsVars, parserVars, ocrVars>>

\* ------------------------------------------------------------------ process_input
Exts == {".pdf", ".png", ".txt"}

\* ImageLoader.SUPPORTED_EXTENSIONS, as far as the inputs of the model go.
SUPPORTED_EXTENSIONS == {".png"}

\* The input documents: a path that may not exist, its extension, the number
\* of pages the loader finds in it, and whether the loader fails on it.
Files ==
    {f \in [exists : BOOLEAN, ext : Exts, npages : 0..MaxPages, corrupt : BOOLEAN] :
        /\ ~f.exists => (f.npages = 0 /\ ~f.corrupt)
        /\ f.corrupt => f.npages = 0
        /\ f.ext = ".png" => (f.npages = 1 \/ f.corrupt \/ ~f.exists)
        /\ f.ext = ".txt" => (f.npages = 0 /\ ~f.corrupt)}

\* Optional[int]: None, or an int.
NoneArg == [none |-> TRUE, n |-> 0]

IntArg(n) == [none |-> FALSE, n |-> n]

MaxWorkersArgs == {NoneArg} \cup {IntArg(n) : n \in (-1)..2}

CpuCounts == {0, 4, 8}

\* What the OCR of one page can produce: a text, or an exception.
PageOutcomes ==
    {Returned("A"), Returned("B"), Returned(""), Raised("OCREngineError", "")}

Min(a, b) == IF a <= b THEN a ELSE b

page_break == "\n\n--- PAGE BREAK ---\n\n"

\* sep.join(seq)
RECURSIVE Join(_, _)
Join(sep, seq) ==
    IF Len(seq) = 0 THEN ""
    ELSE IF Len(seq) = 1 THEN seq[1]
    ELSE seq[1] \o sep \o Join(sep, Tail(seq))

\* _load_images with the extension looked at before the path is tested.
_load_images_ext_first(f) ==
    IF ~(f.ext = ".pdf" \/ f.ext \in SUPPORTED_EXTENSIONS)
    THEN Raised("DocumentTypeNotSupportedError", << >>)
    ELSE IF ~f.exists THEN Raised("DocumentNotFoundError", << >>)
    ELSE IF f.corrupt THEN Raised("LoaderError", << >>)
    ELSE Returned([i \in 1..f.npages |-> i])

\* _load_images(file_path, config): the page images, or the exception raised.
_load_images(f) ==
    IF ~f.exists THEN Raised("DocumentNotFoundError", << >>)
    ELSE IF f.ext = ".pdf" \/ f.ext \in SUPPORTED_EXTENSIONS
    THEN IF f.corrupt THEN Raised("LoaderError", << >>)
         ELSE Returned([i \in 1..f.npages |-> i])
    ELSE Raised("DocumentTypeNotSupportedError", << >>)

\* default_workers: 2, or 4 on a machine with more than 4 cores.
default_workers(cpus) == IF cpus # 0 /\ cpus > 4 THEN 4 ELSE 2

\* n_workers = max_workers or min(len(images), default_workers)
WorkerCount(mw, npages, cpus) ==
    IF ~mw.none /\ mw.n # 0 THEN mw.n ELSE Min(npages, default_workers(cpus))

NoFuture == [state |-> "pending", exc |-> None, result |-> ""]

OcrArguments ==
    /\ file_path \in Files
    /\ max_workers \in MaxWorkersArgs
    /\ cpu_count \in CpuCounts

OcrStart ==
    /\ phase = "load"
    /\ load_error = None
    /\ images = << >>
    /\ n_workers = 0
    /\ futures = << >>
    /\ handled = {}
    /\ texts = << >>
    /\ out_file = [writes |-> 0, content |-> ""]
    /\ ret = Returned("")

OcrUnused ==
    /\ file_path = [exists |-> FALSE, ext |-> ".pdf", npages |-> 0, corrupt |-> FALSE]
    /\ max_workers = NoneArg
    /\ cpu_count = 0
    /\ OcrStart

\* 1. Load Images: a loader exception or an empty page list ends the run
\* with "".
LoadImages ==
    /\ phase = "load"
    /\ LET r == _load_images(file_path)
       IN  /\ load_error' = r.exc
           /\ IF r.exc # None \/ Len(r.value) = 0
              THEN /\ phase' = "not_loaded"
                   /\ ret' = Returned("")
                   /\ UNCHANGED images
              ELSE /\ phase' = "loaded"
                   /\ images' = r.value
                   /\ UNCHANGED ret
    /\ UNCHANGED <<file_path, max_workers, cpu_count, n_workers, futures,
                   handled, texts, out_file, metricsVars, parserVars, workerVars>>

\* 2.-4. worker_args, n_workers, texts = [""] * len(images), the pool is
\* created (ValueError for a worker count below 1) and every page submitted.
StartPool ==
    /\ phase = "loaded"
    /\ LET n == WorkerCount(max_workers, Len(images), cpu_count)
       IN  /\ n_workers' = n
           /\ texts' = [i \in 1..Len(images) |-> ""]
           /\ IF n <= 0
              THEN /\ phase' = "raised"
                   /\ ret' = Raised("ValueError", "")
                   /\ UNCHANGED futures
              ELSE /\ phase' = "gather"
                   /\ futures' = [i \in 1..Len(images) |-> NoFuture]
                   /\ UNCHANGED ret
    /\ UNCHANGED <<file_path, max_workers, cpu_count, load_error, images, handled,
                   out_file, metricsVars, parserVars, workerVars>>

Running == {i \in DOMAIN futures : futures[i].state = "running"}

PendingPages == {i \in DOMAIN futures : futures[i].state = "pending"}

\* A free worker process takes the next page of the queue.
StartPage(i) ==
    /\ phase = "gather"
    /\ i \in PendingPages
    /\ \A j \in PendingPages : i <= j
    /\ Cardinality(Running) < n_workers
    /\ futures' = [futures EXCEPT ![i].state = "running"]
    /\ UNCHANGED <<file_path, max_workers, cpu_count, load_error, phase, images, n_workers,
                   handled, texts, out_file, ret, metricsVars, parserVars, workerVars>>

\* process_single_page returns the page's text or raises OCREngineError,
\* and the future completes with that.
FinishPage(i, outcome) ==
    /\ phase = "gather"
    /\ i \in Running
    /\ futures' = [futures EXCEPT ![i] =
          [state |-> "done", exc |-> outcome.exc, result |-> outcome.value]]
    /\ UNCHANGED <<file_path, max_workers, cpu_count, load_error, phase, images, n_workers,
                   handled, texts, out_file, ret, metricsVars, parserVars, workerVars>>

Completed == {i \in DOMAIN futures : futures[i].state = "done"}

\* The loop body with the result appended in completion order.
HandleCompleted_append(idx) ==
    /\ phase = "gather"
    /\ idx \in Completed \ handled
    /\ handled' = handled \cup {idx}
    /\ IF futures[idx].exc = None
       THEN texts' = [texts EXCEPT ![Cardinality(handled) + 1] = futures[idx].result]
       ELSE UNCHANGED texts
    /\ UNCHANGED <<file_path, max_workers, cpu_count, load_error, phase, images, n_workers,
                   futures, out_file, ret, metricsVars, parserVars, workerVars>>

\* The loop body without the inner try: a page's exception leaves process_input.
HandleCompleted_propagate(idx) ==
    /\ phase = "gather"
    /\ idx \in Completed \ handled
    /\ handled' = handled \cup {idx}
    /\ IF futures[idx].exc = None
       THEN /\ texts' = [texts EXCEPT ![idx] = futures[idx].result]
            /\ UNCHANGED <<phase, ret>>
       ELSE /\ phase' = "raised"
            /\ ret' = Raised(futures[idx].exc, "")
            /\ UNCHANGED texts
    /\ UNCHANGED <<file_path, max_workers, cpu_count, load_error, images, n_workers,
                   futures, out_file, metricsVars, parserVars, workerVars>>

\* for future in as_completed(future_to_idx): one iteration, for a future
\* that has completed, in whatever order they complete.
HandleCompleted(idx) ==
    /\ phase = "gather"
    /\ idx \in Completed \ handled
    /\ handled' = handled \cup {idx}
    /\ IF futures[idx].exc = None
       THEN texts' = [texts EXCEPT ![idx] = futures[idx].result]
       ELSE UNCHANGED texts
    /\ UNCHANGED <<file_path, max_workers, cpu_count, load_error, phase, images, n_workers,
                   futures, out_file, ret, metricsVars, parserVars, workerVars>>

\* An interrupt handler that falls through to the save step.
KeyboardInterrupt_fallthrough ==
    /\ phase = "gather"
    /\ phase' = "interrupted"
    /\ LET full_text == Join(page_break, texts)
       IN  /\ out_file' = [writes |-> out_file.writes + 1, content |-> full_text]
           /\ ret' = Returned(full_text)
    /\ UNCHANGED <<file_path, max_workers, cpu_count, load_error, images, n_workers,
                   futures, handled, texts, metricsVars, parserVars, workerVars>>

\* except KeyboardInterrupt: return ""
KeyboardInterrupt ==
    /\ phase = "gather"
    /\ phase' = "interrupted"
    /\ ret' = Returned("")
    /\ UNCHANGED <<file_path, max_workers, cpu_count, load_error, images, n_workers,
                   futures, handled, texts, out_file, metricsVars, parserVars, workerVars>>

\* 5. Save Results: after the loop, join, write the file, return the text.
SaveResults ==
    /\ phase = "gather"
    /\ handled = DOMAIN futures
    /\ LET full_text == Join(page_break, texts)
       IN  /\ out_file' = [writes |-> out_file.writes + 1, content |-> full_text]
           /\ ret' = Returned(full_text)
    /\ phase' = "saved"
    /\ UNCHANGED <<file_path, max_workers, cpu_count, load_error, images, n_workers,
                   futures, handled, texts, metricsVars, parserVars, workerVars>>

InitOCR == OcrArguments /\ OcrStart /\ IdleParser /\ MetricsUnused /\ WorkerStart

NextOCR ==
    \/ LoadImages
    \/ StartPool
    \/ \E i \in 1..MaxPages : StartPage(i)
    \/ \E i \in 1..MaxPages, outcome \in PageOutcomes : FinishPage(i, outcome)
    \/ \E idx \in 1..MaxPages : HandleCompleted(idx)
    \/ KeyboardInterrupt
    \/ SaveResults

SpecOCR == InitOCR /\ [][NextOCR]_vars

InitParser == IdleParser /\ MetricsUnused /\ OcrUnused /\ WorkerStart

SpecParser == InitParser /\ [][NextParser]_vars

InitMetrics == MetricsArguments /\ IdleParser /\ OcrUnused /\ WorkerStart

SpecMetrics == InitMetrics /\ [][NextMetrics]_vars

InitWorker == WorkerStart /\ IdleParser /\ MetricsUnused /\ OcrUnused

NextWorker ==
    \E ocr_lang \in Langs, init_ok \in BOOLEAN, ocr_ok \in BOOLEAN :
        process_single_page(ocr_lang, init_ok, ocr_ok)

SpecWorker == InitWorker /\ [][NextWorker]_vars

\* ------------------------------------------------------------------ claims
TotalAssets == "tong_tai_san"

GrowthRateKeys == {"growth_rate", "growth_rate_tong_tai_san", "growth_rate_total_assets"}

\* C1: when total assets is present in both snapshots and its start value is
\* non-zero, _calculate_metrics returns a mapping with a growth-rate entry
\* equal to (end - start) / start.
C1_GrowthRateComputed ==
    (/\ m_out.called
     /\ TotalAssets \in DOMAIN m_start.data
     /\ TotalAssets \in DOMAIN m_end.data
     /\ m_start.data[TotalAssets] # 0)
    => /\ m_out.exc = None
       /\ \E key \in DOMAIN m_out.value :
             m_out.value[key] =
                Frac(m_end.data[TotalAssets] - m_start.data[TotalAssets],
                     m_start.data[TotalAssets])

\* C2: when the start value of total assets is 0 or absent, _calculate_metrics
\* returns (does not raise) a mapping without a growth-rate key.
C2_NoGrowthRateWithoutStart ==
    (/\ m_out.called
     /\ \/ TotalAssets \notin DOMAIN m_start.data
        \/ m_start.data[TotalAssets] = 0)
    => /\ m_out.exc = None
       /\ DOMAIN m_out.value \cap GrowthRateKeys = {}

C2_Witness ==
    /\ m_out.called
    /\ TotalAssets \in DOMAIN m_start.data
    /\ m_start.data[TotalAssets] = 0
    /\ TotalAssets \in DOMAIN m_end.data
    /\ m_end.data[TotalAssets] # 0

EmptySnapshot == FinancialPeriodData(None, EmptyDict)

\* C3: for a text with no recognizable period section (the empty string
\* included) both extractors return date None and an empty mapping, and
\* neither raises.
C3_NoSectionGivesEmptySnapshot ==
    \A k \in 1..MaxCalls :
        ~HasPeriodSection(calls[k].text) =>
            /\ calls[k].pc # "raised"
            /\ calls[k].pc \in {"l74", "l75", "l77"} =>
                  calls[k].start_period = EmptySnapshot
            /\ calls[k].pc \in {"l75", "l77"} =>
                  calls[k].end_period = EmptySnapshot

C3_Witness ==
    \E k \in 1..MaxCalls :
        /\ calls[k].pc = "l75"
        /\ calls[k].text = EmptyText
        /\ \E j \in 1..MaxCalls :
              calls[j].pc = "l75" /\ calls[j].text = NoiseText

\* C4: parsing the end-to-end scenario text yields start total assets
\* 1000000000, end total assets 1200000000 and a growth-rate metric of 0.2.
C4_EndToEndScenario ==
    \A i \in 1..Len(returned) :
        returned[i].text = E2EText =>
            LET r == returned[i].record
                s == r.financial_period.start_of_period.data
                e == r.financial_period.end_of_period.data
                m == r.calculated_metrics
            IN  /\ \E key \in DOMAIN s : s[key] = 1000000000
                /\ \E key \in DOMAIN e : e[key] = 1200000000
                /\ \E key \in DOMAIN m : m[key] = Frac(2, 10)

\* C5: two parse invocations on the same text return identical
\* financial_period content and identical calculated_metrics, and their
\* report_id values differ.
C5_ParseIdempotentContent ==
    \A i, j \in 1..Len(returned) :
        (i # j /\ returned[i].text = returned[j].text) =>
            /\ returned[i].record.financial_period
                  = returned[j].record.financial_period
            /\ returned[i].record.calculated_metrics
                  = returned[j].record.calculated_metrics
            /\ returned[i].record.report_id # returned[j].record.report_id

C5_Witness ==
    \E i, j \in 1..Len(returned) :
        i # j /\ returned[i].text = E2EText /\ returned[j].text = E2EText

IsPrefix(s, t) ==
    /\ Len(s) <= Len(t)
    /\ \A i \in 1..Len(s) : t[i] = s[i]

\* C6: no two returned records carry the same report_id; the identifier an
\* invocation generates can be any fresh one whatever its text; and a record
\* already returned is never changed by a later step.
C6_ReportIdUniqueAndStable ==
    [][/\ IsPrefix(returned, returned')
       /\ \A i, j \in 1..Len(returned') :
             i # j => returned'[i].record.report_id # returned'[j].record.report_id
       /\ \A k \in 1..MaxCalls :
             calls[k].pc = "l71" /\ calls'[k].pc = "l73" =>
                /\ calls'[k].report_id \notin issued
                /\ \A id \in Uuids \ issued :
                      ENABLED (ParseUuid(k) /\ calls'[k].report_id = id)
      ]_vars

C6_Witness ==
    /\ Len(returned) >= 2
    /\ returned[1].text # returned[2].text
    /\ \E k \in 1..MaxCalls : calls[k].pc = "l73"

TopKeys == {"report_id", "financial_period", "calculated_metrics"}

IsPeriodDict(p) ==
    /\ DOMAIN p = {"date", "data"}
    /\ p.date \in STRING
    /\ DOMAIN p.data \subseteq STRING
    /\ \A key \in DOMAIN p.data : p.data[key] \in Int

\* C7: parse returns, without raising, a record with exactly the keys
\* report_id, financial_period, calculated_metrics; financial_period has
\* exactly start_of_period and end_of_period, each with exactly date (a
\* string or None) and data (a mapping).
C7_RecordShape ==
    /\ \A k \in 1..MaxCalls : calls[k].pc # "raised"
    /\ \A i \in 1..Len(returned) :
          LET r == returned[i].record
          IN  /\ DOMAIN r = TopKeys
              /\ DOMAIN r.financial_period = {"start_of_period", "end_of_period"}
              /\ IsPeriodDict(r.financial_period.start_of_period)
              /\ IsPeriodDict(r.financial_period.end_of_period)
              /\ DOMAIN r.calculated_metrics \subseteq STRING

C7_Witness ==
    /\ Len(returned) >= 3
    /\ {returned[i].text : i \in 1..3} = Texts

\* What one invocation, run alone from call to return, puts in its record.
ParseAlone(text) ==
    LET s == _extract_start_of_period(text).value
        e == _extract_end_of_period(text).value
        m == _calculate_metrics(s, e).value
    IN  ReportDict(0, s, e, m)

ContentAsAlone ==
    \A i \in 1..Len(returned) :
        /\ returned[i].record.financial_period
              = ParseAlone(returned[i].text).financial_period
        /\ returned[i].record.calculated_metrics
              = ParseAlone(returned[i].text).calculated_metrics

\* C9: a step of a parse invocation leaves the parser object, the text of
\* every invocation in progress and every returned record unchanged, and
\* under any interleaving each record has the content of the invocation run
\* alone.
C9_ParserStateless ==
    [][/\ parser' = parser
       /\ IsPrefix(returned, returned')
       /\ \A k \in 1..MaxCalls :
             (calls[k].pc # "idle" /\ calls'[k].pc # "idle") =>
                calls'[k].text = calls[k].text
       /\ ContentAsAlone'
      ]_vars

C9_Witness ==
    /\ Len(returned) >= 1
    /\ returned[1].text = NoiseText
    /\ \E k \in 1..MaxCalls : calls[k].pc = "l74" /\ calls[k].text = E2EText
    /\ \E k \in 1..MaxCalls : calls[k].pc = "l77" /\ calls[k].text = EmptyText

\* The text page i has delivered: its result, or "" when its worker raised.
PageText(i) == IF futures[i].exc = None THEN futures[i].result ELSE ""

PoolStarted == phase \in {"gather", "saved", "interrupted"}

\* C8: whatever the completion order, the text of page i is stored in slot i
\* of the result list, which has one slot per loaded page, and the full text
\* is the slots in page order joined by the page-break separator.
C8_PagesInIndexOrder ==
    /\ PoolStarted =>
          /\ Len(texts) = Len(images)
          /\ \A i \in 1..Len(images) :
                texts[i] = IF i \in handled THEN PageText(i) ELSE ""
    /\ phase = "saved" =>
          /\ ret.exc = None
          /\ ret.value = Join(page_break, [i \in 1..Len(images) |-> PageText(i)])
          /\ out_file.content = ret.value

C8_OutOfOrderWitness ==
    /\ phase = "gather"
    /\ \E i, j \in DOMAIN futures :
          /\ i < j
          /\ j \in handled /\ texts[j] = "A"
          /\ i \notin handled /\ i \in Completed /\ futures[i].result = "B"

FailedPages == {i \in Completed : futures[i].exc # None}

\* C10: a worker that raises for page i leaves slot i empty and does not end
\* the run: the other pages are still collected into their slots, and once
\* all are handled the output file is written and the joined text, one
\* segment per page, returned.
C10_FailedPageDoesNotAbort ==
    /\ handled # {} => PoolStarted
    /\ \A i \in handled \cap FailedPages : texts[i] = ""
    /\ (phase = "gather" /\ handled \cap FailedPages # {}) =>
          \/ ENABLED SaveResults
          \/ \E i \in DOMAIN futures :
                \/ ENABLED HandleCompleted(i)
                \/ ENABLED StartPage(i)
                \/ i \in Running
    /\ (phase = "saved" /\ FailedPages # {}) =>
          /\ out_file.writes = 1
          /\ ret.exc = None
          /\ out_file.content = ret.value
          /\ ret.value = Join(page_break, texts)
          /\ Len(texts) = Len(images)
          /\ \A i \in DOMAIN futures \ FailedPages : texts[i] = futures[i].result

C10_Witness ==
    /\ phase = "saved"
    /\ out_file.writes = 1
    /\ \E i, j \in DOMAIN futures :
          /\ i < j
          /\ i \in FailedPages
          /\ j \notin FailedPages /\ texts[j] = "A"
    /\ ret.value = "" \o page_break \o "A"

SameLang ==
    \A i, j \in 1..Len(worker_log) : worker_log[i].ocr_lang = worker_log[j].ocr_lang

\* C11: in one worker process no engine exists before the first
\* process_single_page call, and while all calls pass the same ocr_lang the
\* engine is successfully constructed at most once and every later call
\* uses that same instance.
C11_EngineLazyCached ==
    /\ worker_log = << >> => (engine_instance = 0 /\ engines = << >>)
    /\ SameLang =>
          /\ Len(engines) <= 1
          /\ Cardinality({i \in 1..Len(worker_log) : worker_log[i].built}) <= 1
          /\ \A i, j \in 1..Len(worker_log) :
                (i < j /\ worker_log[i].engine # 0) =>
                    /\ worker_log[j].engine = worker_log[i].engine
                    /\ ~worker_log[j].built

C11_Witness ==
    /\ Len(worker_log) >= 3
    /\ SameLang
    /\ worker_log[1].engine = 0
    /\ worker_log[2].built
    /\ worker_log[3].engine = worker_log[2].engine

\* C12: every engine a call gets from _get_global_engine(ocr_lang) was
\* constructed with a configuration whose ocr_lang is the call's ocr_lang,
\* also after calls whose construction raised, and the cached configuration
\* is that of the cached instance.
C12_EngineMatchesLang ==
    \A i \in 1..Len(worker_log) :
        worker_log[i].engine # 0 =>
            engines[worker_log[i].engine].ocr_lang = worker_log[i].ocr_lang

Loadable(f) == f.ext = ".pdf" \/ f.ext \in SUPPORTED_EXTENSIONS

\* The exception loading is to end with, None when the loader returns.
ExpectedLoadError(f) ==
    IF ~f.exists THEN "DocumentNotFoundError"
    ELSE IF ~Loadable(f) THEN "DocumentTypeNotSupportedError"
    ELSE IF f.corrupt THEN "LoaderError"
    ELSE None

LoadingFails(f) == ExpectedLoadError(f) # None \/ f.npages = 0

\* C13: when the path does not exist (DocumentNotFoundError, whatever the
\* extension), the extension is unsupported (DocumentTypeNotSupportedError),
\* the loader raises, or it returns no pages, process_input returns "",
\* submits no page and writes no output file.
C13_LoadFailureReturnsEmpty ==
    (phase # "load" /\ LoadingFails(file_path)) =>
        /\ load_error = ExpectedLoadError(file_path)
        /\ phase = "not_loaded"
        /\ ret = Returned("")
        /\ futures = << >>
        /\ handled = {}
        /\ out_file.writes = 0

C13_Witness ==
    /\ phase = "not_loaded"
    /\ ~file_path.exists
    /\ file_path.ext = ".txt"
    /\ load_error = "DocumentNotFoundError"

\* C14: the worker count handed to the pool is at least 1: min(number of
\* pages, 2 or 4) when max_workers is None or 0, max_workers itself when it
\* is positive, and no max_workers value makes process_input raise.
C14_WorkerCountAtLeastOne ==
    phase \in {"gather", "saved", "interrupted", "raised"} =>
        /\ n_workers >= 1
        /\ (max_workers.none \/ max_workers.n = 0) =>
              /\ \E d \in {2, 4} : n_workers = Min(Len(images), d)
              /\ n_workers <= 4
              /\ n_workers <= Len(images)
        /\ (~max_workers.none /\ max_workers.n > 0) => n_workers = max_workers.n
        /\ phase # "raised"
        /\ ret.exc = None

AllDelivered ==
    /\ handled = DOMAIN futures
    /\ \A i \in DOMAIN futures : futures[i].state = "done"

\* C15: the output file is written at most once, and only after every
\* submitted page has delivered its result or been recorded as failed; a
\* run interrupted while gathering returns "" and never writes the file.
C15_WriteOnceAfterAllPages ==
    /\ out_file.writes <= 1
    /\ out_file.writes = 1 => (phase = "saved" /\ futures # << >> /\ AllDelivered)
    /\ phase = "saved" => out_file.writes = 1
    /\ phase = "interrupted" => (ret = Returned("") /\ out_file.writes = 0)

C15_Witness ==
    /\ phase = "interrupted"
    /\ Len(images) = 2
    /\ handled = {2}
    /\ texts[2] = "A"
    /\ futures[1].state = "done"

====
